---- MODULE Spec2Model ----
(***************************************************************************)
(* State-machine model of organizer_downloads_files.py: the rule table,    *)
(* the move planner, safe_move, the batch scanner (deep_scan_and_organize),*)
(* the empty-directory reaper, the watch handler (NewFileHandler), the     *)
(* headless runner (run_headless) and the GUI actions (OrganizerGUI).      *)
(*                                                                         *)
(* Paths are sequences of directory names relative to the target folder;   *)
(* <<>> is the target folder itself.  A file is a record with the          *)
(* directory it lies in, its stem and its suffix (Path.stem, Path.suffix), *)
(* an identity (its content) and its modification time.                    *)
(***************************************************************************)
EXTENDS Integers, Sequences, FiniteSets, TLC

VARIABLES
    dirs,    \* the directories that exist (paths); <<>> is the target folder
    files,   \* the regular files that exist
    cfg,     \* the effective configuration of the process (load_config + args)
    stats,   \* the Stats records made by make_stats, by identity
    thr,     \* the threads that run a batch organize: 0 is the headless main thread
    gui,     \* OrganizerGUI: self.stats, and the Run Now threads started so far
    obs,     \* the watchdog observer and its NewFileHandler
    env,     \* the process invocation, and what the environment has done so far
    hist     \* history (kept while env.trace): the last safe_move call, the
             \* last reaper pass, the files moved

vars == <<dirs, files, cfg, stats, thr, gui, obs, env, hist>>

(***************************************************************************)
(* Bounds of the model.                                                    *)
(***************************************************************************)
\* Run Now clicks of one GUI session (each starts a thread and makes a Stats).
MaxRuns == 2
\* Invocations of the headless program in a row on the same tree.
MaxInvocations == 2
\* Files and directories the environment creates during a watch session.
MaxEvents == 1
\* Operations the environment makes fail (permission denied, disk full, ...).
MaxFaults == 1

Threads == 0 .. MaxRuns
Workers == 1 .. MaxRuns
StatsIds == 0 .. MaxRuns
root == <<>>

(***************************************************************************)
(* Stats helper (make_stats).                                              *)
(***************************************************************************)
make_stats ==
    [scanned |-> 0, folders_created |-> 0, files_moved |-> 0,
     folders_deleted |-> 0, errors |-> 0]

(***************************************************************************)
(* Extensions and the rule table.                                          *)
(***************************************************************************)
\* DEFAULT_RULES, in the dict's insertion order.
DEFAULT_RULES ==
    << <<"Images", <<"jpg", "jpeg", "png", "gif", "bmp", "svg", "webp", "heic">> >>,
       <<"Videos", <<"mp4", "mkv", "mov", "avi", "webm">> >>,
       <<"Audio", <<"mp3", "wav", "flac", "aac", "m4a">> >>,
       <<"Documents", <<"pdf", "doc", "docx", "xls", "xlsx", "ppt", "pptx", "txt", "rtf">> >>,
       <<"Archives", <<"zip", "rar", "7z", "tar", "gz", "bz2">> >>,
       <<"Code", <<"js", "jsx", "ts", "tsx", "py", "java", "c", "cpp", "html", "css", "json">> >>,
       <<"Installers", <<"exe", "msi", "deb", "rpm">> >>,
       <<"Others", <<>> >> >>

\* p.lstrip(".").lower() on the strings of the model that it changes; every
\* other string of the model is lower case and has no leading dot.
NormTable ==
    [s \in {".jpg", ".JPG", ".txt", ".xyz", ".PNG", "Txt", ".pdf"} |->
        CASE s = ".jpg" -> "jpg"
          [] s = ".JPG" -> "jpg"
          [] s = ".txt" -> "txt"
          [] s = ".xyz" -> "xyz"
          [] s = ".PNG" -> "png"
          [] s = "Txt"  -> "txt"
          [] s = ".pdf" -> "pdf"]

normalize_ext(p) == IF p \in DOMAIN NormTable THEN NormTable[p] ELSE p

SeqToSet(s) == {s[i] : i \in 1 .. Len(s)}

NormAll(exts) == [i \in 1 .. Len(exts) |-> normalize_ext(exts[i])]

\* A custom_rules mapping is a sequence of <<category, extensions>> with
\* distinct categories: a dict in insertion order.
CustomKeys(custom_rules) == {custom_rules[i][1] : i \in 1 .. Len(custom_rules)}

build_rules_merging(custom_rules) ==
    [i \in 1 .. Len(custom_rules) |->
        <<custom_rules[i][1], NormAll(custom_rules[i][2])>>]
    \o [i \in 1 .. Len(DEFAULT_RULES) |->
        <<DEFAULT_RULES[i][1], NormAll(DEFAULT_RULES[i][2])>>]

build_rules(custom_rules) ==
    LET rules == [i \in 1 .. Len(custom_rules) |->
                    <<custom_rules[i][1], NormAll(custom_rules[i][2])>>]
        kept == SelectSeq(DEFAULT_RULES,
                          LAMBDA r : r[1] \notin CustomKeys(custom_rules))
    IN  rules \o [i \in 1 .. Len(kept) |-> <<kept[i][1], NormAll(kept[i][2])>>]

RECURSIVE ResolveFrom(_, _, _)
ResolveFrom(ext, ordered_rules, i) ==
    IF i > Len(ordered_rules) THEN "Others"
    ELSE IF ext \in SeqToSet(ordered_rules[i][2]) THEN ordered_rules[i][1]
    ELSE ResolveFrom(ext, ordered_rules, i + 1)

resolve_folder_for_ext(ext, ordered_rules) == ResolveFrom(ext, ordered_rules, 1)

(***************************************************************************)
(* Modification times.  A timestamp is counted in months: 12 * year +      *)
(* (month - 1); datetime.fromtimestamp(ts).year and strftime("%b").        *)
(***************************************************************************)
MonthAbbr ==
    <<"Jan", "Feb", "Mar", "Apr", "May", "Jun",
      "Jul", "Aug", "Sep", "Oct", "Nov", "Dec">>

year_from_ts(ts) == ToString(ts \div 12)
month_name_from_ts(ts) == MonthAbbr[(ts % 12) + 1]

TsMar2023 == 12 * 2023 + 2
TsJan2024 == 12 * 2024

(***************************************************************************)
(* The filesystem.                                                         *)
(***************************************************************************)
Name(f) == f.stem \o f.ext

\* Path(p) / name: pathlib drops an empty or "." component.
Join(p, name) == IF name \in {"", "."} THEN p ELSE Append(p, name)

Prefixes(p) == {SubSeq(p, 1, n) : n \in 0 .. Len(p)}

IsPrefix(p, q) == Len(p) <= Len(q) /\ SubSeq(q, 1, Len(p)) = p

FileAt(fs, dir, name) == {f \in fs : f.dir = dir /\ Name(f) = name}

\* A regular file lies at path p (its last component is the file's name).
IsFilePath(fs, p) ==
    Len(p) > 0 /\ FileAt(fs, SubSeq(p, 1, Len(p) - 1), p[Len(p)]) # {}

\* Path.exists() of the path p.
PathExists(ds, fs, p) == p \in ds \/ IsFilePath(fs, p)

\* Path.exists() of dir / name.
EntryExists(ds, fs, dir, name) ==
    dir \in ds /\ (Append(dir, name) \in ds \/ FileAt(fs, dir, name) # {})

Children(ds, d) == {c \in ds : Len(c) = Len(d) + 1 /\ IsPrefix(d, c)}

FilesIn(fs, d) == {f \in fs : f.dir = d}

(***************************************************************************)
(* ensure_dir and safe_move.  Each returns what the call leaves behind:    *)
(* the directories, the files, the Stats record and how the call ended.    *)
(* fault names the operation the environment makes fail in this call       *)
(* ("none", "stat", "mkdir" or "move").                                    *)
(***************************************************************************)
\* p.mkdir(parents=True, exist_ok=True) cannot succeed: the environment
\* refuses it, or a regular file lies on the way.
MkdirFails(fs, p, fault) ==
    fault = "mkdir" \/ \E q \in Prefixes(p) : IsFilePath(fs, q)

ensure_dir(ds, fs, p, st, fault) ==
    IF PathExists(ds, fs, p)
    THEN [ok |-> TRUE, dirs |-> ds, stats |-> st]
    ELSE IF MkdirFails(fs, p, fault)
    THEN [ok |-> FALSE, dirs |-> ds, stats |-> st]
    ELSE [ok |-> TRUE, dirs |-> ds \cup Prefixes(p),
          stats |-> [st EXCEPT !.folders_created = @ + 1]]

\* f"{name} ({i}){ext}" without the extension.
Candidate(stem, i) == stem \o " (" \o ToString(i) \o ")"

\* The while loop of safe_move: the first i >= start whose candidate is free.
RECURSIVE FirstFree(_, _, _, _, _, _)
FirstFree(ds, fs, dest_dir, stem, ext, i) ==
    IF ~EntryExists(ds, fs, dest_dir, Candidate(stem, i) \o ext)
    THEN i
    ELSE FirstFree(ds, fs, dest_dir, stem, ext, i + 1)

DestStemOverwrite(ds, fs, dest_dir, src) == src.stem

\* The stem of the name safe_move moves src to (the suffix is src's own).
DestStem(ds, fs, dest_dir, src) ==
    IF ~EntryExists(ds, fs, dest_dir, Name(src))
    THEN src.stem
    ELSE Candidate(src.stem, FirstFree(ds, fs, dest_dir, src.stem, src.ext, 1))

\* shutil.move(src, dest) raises: the environment refuses it, the source is
\* gone, the destination directory is no directory, or dest is a directory.
MoveFails(ds, fs, src, dest_dir, stem, fault) ==
    \/ fault = "move"
    \/ FileAt(fs, src.dir, Name(src)) = {}
    \/ dest_dir \notin ds
    \/ Append(dest_dir, stem \o src.ext) \in ds

\* os.rename: the file takes the new name, replacing a file of that name.
Renamed(fs, src, dest_dir, stem) ==
    LET f == CHOOSE g \in fs : g.dir = src.dir /\ Name(g) = Name(src)
    IN  ((fs \ {f}) \ FileAt(fs, dest_dir, stem \o src.ext))
            \cup {[f EXCEPT !.dir = dest_dir, !.stem = stem]}

safe_move(ds, fs, st, src, dest_dir, fault) ==
    LET e == ensure_dir(ds, fs, dest_dir, st, fault)
        st1 == [e.stats EXCEPT !.scanned = @ + 1]
        stem == DestStem(e.dirs, fs, dest_dir, src)
    IN  IF ~e.ok
        THEN [outcome |-> "mkdir_failed", dirs |-> ds, files |-> fs, stats |-> st,
              src |-> src, dest |-> dest_dir, stem |-> src.stem]
        ELSE IF MoveFails(e.dirs, fs, src, dest_dir, stem, fault)
        THEN [outcome |-> "move_failed", dirs |-> e.dirs, files |-> fs,
              stats |-> [st1 EXCEPT !.errors = @ + 1],
              src |-> src, dest |-> dest_dir, stem |-> stem]
        ELSE [outcome |-> "moved", dirs |-> e.dirs,
              files |-> Renamed(fs, src, dest_dir, stem),
              stats |-> [st1 EXCEPT !.files_moved = @ + 1],
              src |-> src, dest |-> dest_dir, stem |-> stem]

(***************************************************************************)
(* The move planner: the three organize_* functions and their dispatch.    *)
(***************************************************************************)
\* path.stat() raises: the environment refuses it, or the file is gone.
StatFails(fs, src, fault) ==
    fault = "stat" \/ FileAt(fs, src.dir, Name(src)) = {}

MtimeOf(fs, src) ==
    (CHOOSE g \in fs : g.dir = src.dir /\ Name(g) = Name(src)).ts

StatFailed(ds, fs, st, src) ==
    [outcome |-> "stat_failed", dirs |-> ds, files |-> fs, stats |-> st,
     src |-> src, dest |-> root, stem |-> src.stem]

organize_by_type_then_date(ds, fs, st, ordered_rules, src, fault) ==
    LET folder_name == resolve_folder_for_ext(normalize_ext(src.ext), ordered_rules)
    IN  IF StatFails(fs, src, fault) THEN StatFailed(ds, fs, st, src)
        ELSE LET ts == MtimeOf(fs, src)
                 dest == Join(Join(Join(root, folder_name), year_from_ts(ts)),
                              month_name_from_ts(ts))
             IN  safe_move(ds, fs, st, src, dest, fault)

organize_by_date_then_type(ds, fs, st, ordered_rules, src, fault) ==
    IF StatFails(fs, src, fault) THEN StatFailed(ds, fs, st, src)
    ELSE LET ts == MtimeOf(fs, src)
             folder_name ==
                 resolve_folder_for_ext(normalize_ext(src.ext), ordered_rules)
             dest == Join(Join(Join(root, year_from_ts(ts)),
                               month_name_from_ts(ts)), folder_name)
         IN  safe_move(ds, fs, st, src, dest, fault)

organize_flat_type(ds, fs, st, ordered_rules, src, fault) ==
    LET folder_name == resolve_folder_for_ext(normalize_ext(src.ext), ordered_rules)
    IN  safe_move(ds, fs, st, src, Join(root, folder_name), fault)

OrganizeSwapped(ds, fs, st, ordered_rules, method, src, fault) ==
    IF method = "type_date"
    THEN organize_by_date_then_type(ds, fs, st, ordered_rules, src, fault)
    ELSE IF method = "date_type"
    THEN organize_by_type_then_date(ds, fs, st, ordered_rules, src, fault)
    ELSE organize_flat_type(ds, fs, st, ordered_rules, src, fault)

\* The if / elif / else on method, of deep_scan_and_organize and on_created.
Organize(ds, fs, st, ordered_rules, method, src, fault) ==
    IF method = "type_date"
    THEN organize_by_type_then_date(ds, fs, st, ordered_rules, src, fault)
    ELSE IF method = "date_type"
    THEN organize_by_date_then_type(ds, fs, st, ordered_rules, src, fault)
    ELSE organize_flat_type(ds, fs, st, ordered_rules, src, fault)

(***************************************************************************)
(* The empty-directory reaper.  os.walk(path, topdown=False) yields a      *)
(* directory after all its subdirectories, so a directory is inspected     *)
(* once its subdirectories have been inspected and, when empty, removed.   *)
(* fail is the set of directories whose removal the environment refuses.   *)
(***************************************************************************)
RemovableLeafOnly(ds, fs, fail, d) ==
    d \notin fail /\ FilesIn(fs, d) = {} /\ Children(ds, d) = {}

RECURSIVE Removable(_, _, _, _)
Removable(ds, fs, fail, d) ==
    /\ d \notin fail
    /\ FilesIn(fs, d) = {}
    /\ \A c \in Children(ds, d) : Removable(ds, fs, fail, c)

delete_empty_folders(ds, fs, st, fail) ==
    LET removed == IF root \in ds
                   THEN {d \in ds \ {root} : Removable(ds, fs, fail, d)}
                   ELSE {}
    IN  [dirs |-> ds \ removed,
         stats |-> [st EXCEPT !.folders_deleted = @ + Cardinality(removed)]]

(***************************************************************************)
(* Configurations and trees the model starts from.                         *)
(***************************************************************************)
\* The values of "method": the three radio buttons of the GUI (and choices
\* of --method), and a string of the config file that is none of them.
GuiMethods == {"type_date", "date_type", "type"}
Methods == GuiMethods \cup {"by_name"}

\* custom_rules of organizer_config.json.
CustomTables ==
    { <<>>,
      << <<"Pics", <<".JPG", "png">> >>, <<"Images", <<"xyz">> >> >>,
      << <<"Docs", <<"Txt", ".pdf">> >>, <<"Others", <<"jpg">> >> >>,
      << <<"", <<"jpg">> >> >> }

File(dir, stem, ext, id, ts) ==
    [dir |-> dir, stem |-> stem, ext |-> ext, id |-> id, ts |-> ts]

SrcOf(f) == [dir |-> f.dir, stem |-> f.stem, ext |-> f.ext]

\* The target folder does not exist.
TreeMissing == [dirs |-> {}, files |-> {}]

\* Files of two categories at the top level, and nested empty directories.
TreeFlat ==
    [dirs |-> {root, <<"e">>, <<"e", "e2">>},
     files |-> {File(root, "a", ".jpg", 1, TsMar2023),
                File(root, "b", ".txt", 2, TsJan2024)}]

\* A regular file named like a category lies at the top level.
TreeClash ==
    [dirs |-> {root},
     files |-> {File(root, "a", ".JPG", 1, TsMar2023),
                File(root, "Images", "", 3, TsJan2024)}]

\* The folder d, where the default rules send a.jpg, already holds a.jpg
\* and "a (1).jpg".
TreeCollide(d) ==
    [dirs |-> Prefixes(d),
     files |-> {File(root, "a", ".jpg", 1, TsMar2023),
                File(d, "a", ".jpg", 4, TsMar2023),
                File(d, "a (1)", ".jpg", 5, TsMar2023)}]

CollideDir(method) ==
    CASE method = "type_date" -> <<"Images", "2023", "Mar">>
      [] method = "date_type" -> <<"2023", "Mar", "Images">>
      [] OTHER -> <<"Images">>

\* Two files of the same name in different directories.
TreeNested ==
    [dirs |-> {root, <<"sub">>, <<"sub", "deep">>},
     files |-> {File(root, "a", ".jpg", 1, TsMar2023),
                File(<<"sub">>, "a", ".jpg", 8, TsMar2023)}]

\* Only nested directories, no file.
TreeDirsOnly ==
    [dirs |-> {root, <<"x">>, <<"x", "y">>, <<"x", "y", "z">>, <<"w">>},
     files |-> {}]

\* The starting points: a tree and the custom rules of the config.  Every
\* custom table is tried on TreeFlat, the other trees run the default rules.
Scenarios(method) ==
    {[tree |-> TreeFlat, custom |-> cr] : cr \in CustomTables}
    \cup {[tree |-> tr, custom |-> <<>>] :
            tr \in {TreeMissing, TreeClash, TreeCollide(CollideDir(method)),
                    TreeNested, TreeDirsOnly}}

\* The k-th file the environment creates while the folder is watched.
NewFile(dir, k) == File(dir, "a", ".jpg", 9 + k, TsMar2023)

(***************************************************************************)
(* State.                                                                  *)
(***************************************************************************)
NoSrc == [dir |-> root, stem |-> "", ext |-> ""]

ThreadInit(pc) ==
    [pc |-> pc, st |-> 0, rules |-> <<>>, stack |-> <<>>, inBody |-> FALSE,
     todo |-> {}, subs |-> <<>>, seen |-> {}, subm |-> {}]

ObsInit ==
    [running |-> FALSE, pc |-> "idle", st |-> 0, rules |-> <<>>,
     queue |-> <<>>, cur |-> NoSrc]

LastInit ==
    [outcome |-> "none", by |-> "none", sid |-> 0, src |-> NoSrc, id |-> 0,
     dest |-> root, stem |-> "", before |-> make_stats, after |-> make_stats,
     raised |-> FALSE, preDirs |-> {}, preFiles |-> {}, postFiles |-> {},
     rules |-> <<>>]

ReapInit ==
    [ran |-> FALSE, sid |-> 0, dirsBefore |-> {}, dirsAfter |-> {},
     filesThen |-> {}, fail |-> {},
     before |-> make_stats, after |-> make_stats]

HistInit ==
    [last |-> LastInit, reap |-> ReapInit,
     start |-> [dirs |-> {}, files |-> {}],
     calls |-> [s \in StatsIds |-> 0],
     placed |-> {}, movedNow |-> {}, rmdirs |-> 0]

InitCommon ==
    /\ stats = [s \in StatsIds |-> make_stats]
    /\ gui = [stats |-> 0, runs |-> 0]
    /\ obs = ObsInit
    /\ env = [inv |-> 1, created |-> 0, faults |-> 0, trace |-> TRUE]
    /\ hist = HistInit

\* The headless program: --run, --watch or both.
Init ==
    /\ InitCommon
    /\ \E m \in Methods, rec \in BOOLEAN, del \in BOOLEAN,
          run \in BOOLEAN, watch \in BOOLEAN :
          \E sc \in Scenarios(m) :
              /\ run \/ watch
              /\ dirs = sc.tree.dirs
              /\ files = sc.tree.files
              /\ cfg = [method |-> m, recursive |-> rec, delete_empty |-> del,
                        custom_rules |-> sc.custom, run |-> run, watch |-> watch]
    /\ thr = [t \in Threads |-> ThreadInit(IF t = 0 THEN "start" ELSE "idle")]

(***************************************************************************)
(* The move pipeline and the reaper as steps of a thread.                  *)
(***************************************************************************)
Faults == IF env.faults < MaxFaults THEN {"none", "stat", "mkdir", "move"}
          ELSE {"none"}

IdOf(fs, src) ==
    IF FileAt(fs, src.dir, Name(src)) = {} THEN 0
    ELSE (CHOOSE g \in fs : g.dir = src.dir /\ Name(g) = Name(src)).id

\* One call of organize_* on src, writing the Stats record sid.  r is what
\* the call leaves behind, r0 the same call without a fault.
Pipeline(sid, ordered_rules, src, r, r0, by) ==
    /\ dirs' = r.dirs
    /\ files' = r.files
    /\ stats' = [stats EXCEPT ![sid] = r.stats]
    /\ env' = [env EXCEPT !.faults = IF r.outcome # r0.outcome THEN @ + 1 ELSE @]
    /\ hist' = IF ~env.trace THEN hist ELSE [hist EXCEPT
            !.last = [outcome |-> r.outcome, by |-> by, sid |-> sid, src |-> src,
                      id |-> IdOf(files, src), dest |-> r.dest, stem |-> r.stem,
                      before |-> stats[sid], after |-> r.stats,
                      raised |-> r.outcome # "moved",
                      preDirs |-> dirs, preFiles |-> files, postFiles |-> r.files,
                      rules |-> ordered_rules],
            !.calls[sid] = IF r.outcome = "stat_failed" THEN @ ELSE @ + 1,
            !.movedNow = IF r.outcome = "moved" /\ by = "batch"
                         THEN @ \cup {IdOf(files, src)} ELSE @]

\* The directories whose removal the environment may refuse in one pass.
FailSets ==
    {{}} \cup (IF env.faults < MaxFaults /\ root \in dirs
               THEN {{d} : d \in {c \in dirs \ {root} : Removable(dirs, files, {}, c)}}
               ELSE {})

\* One pass of delete_empty_folders(target, stats) on the Stats record sid.
Reap(sid) ==
    \E fail \in FailSets :
        LET r == delete_empty_folders(dirs, files, stats[sid], fail)
        IN  /\ dirs' = r.dirs
            /\ stats' = [stats EXCEPT ![sid] = r.stats]
            /\ env' = [env EXCEPT !.faults = IF fail # {} THEN @ + 1 ELSE @]
            /\ hist' = IF ~env.trace THEN hist ELSE [hist EXCEPT
                    !.reap = [ran |-> TRUE, sid |-> sid, dirsBefore |-> dirs,
                              dirsAfter |-> r.dirs,
                              filesThen |-> files, fail |-> fail,
                              before |-> stats[sid], after |-> r.stats],
                    !.rmdirs = @ + Cardinality(dirs \ r.dirs)]
            /\ UNCHANGED files

(***************************************************************************)
(* deep_scan_and_organize, as the steps of thread t.                       *)
(***************************************************************************)
RECURSIVE Perms(_)
\* The orders in which os.scandir may list a set of entries.
Perms(S) ==
    IF S = {} THEN {<<>>}
    ELSE UNION {{<<x>> \o q : q \in Perms(S \ {x})} : x \in S}

Categories(ordered_rules) == {ordered_rules[i][1] : i \in 1 .. Len(ordered_rules)}

\* Entry: the rule table is built; a missing target ends the call at once.
DeepScanEnter(t, sid) ==
    thr' = [thr EXCEPT ![t] =
                [ThreadInit(IF root \in dirs THEN "scan" ELSE "tail_reap") EXCEPT
                    !.st = sid,
                    !.rules = build_rules(cfg.custom_rules),
                    !.stack = IF root \in dirs THEN <<root>> ELSE <<>>]]

\* The for loop asks os.walk for its next directory with these directories
\* left to walk: with none left the loop is over.
WalkOn(t, stack) ==
    [thr EXCEPT ![t].stack = stack, ![t].inBody = FALSE,
                ![t].pc = IF stack = <<>> THEN "scan_reap" ELSE "scan"]

\* os.walk yields the next directory: its subdirectories and files are
\* listed now.  Inside a top-level category folder, without recursive, the
\* files are skipped (continue).
WalkEnter(t) ==
    /\ thr[t].pc = "scan"
    /\ ~thr[t].inBody
    /\ thr[t].stack # <<>>
    /\ LET p == Head(thr[t].stack)
           rest == Tail(thr[t].stack)
           skip == /\ Len(p) > 0
                   /\ p[1] \in Categories(thr[t].rules)
                   /\ ~cfg.recursive
       IN  IF p \notin dirs
           THEN thr' = WalkOn(t, rest)
           ELSE \E order \in Perms(Children(dirs, p)) :
                    IF skip
                    THEN thr' = WalkOn(t, order \o rest)
                    ELSE thr' = [thr EXCEPT
                            ![t].stack = rest,
                            ![t].inBody = TRUE,
                            ![t].subs = order,
                            ![t].todo = {SrcOf(f) : f \in FilesIn(files, p)},
                            ![t].seen = @ \cup {SrcOf(f) : f \in FilesIn(files, p)}]
    /\ UNCHANGED <<dirs, files, cfg, stats, gui, obs, env, hist>>

NextTodoAbort(todo, src, outcome) ==
    IF outcome # "moved" THEN {} ELSE todo \ {src}

\* The files still to handle after src: the except clause of the for loop
\* logs a failure and the loop goes on.
NextTodo(todo, src, outcome) == todo \ {src}

\* One iteration of "for f in files".
OrganizeNext(t) ==
    /\ thr[t].pc = "scan"
    /\ thr[t].inBody
    /\ \E src \in thr[t].todo, fault \in Faults :
        LET r == Organize(dirs, files, stats[thr[t].st], thr[t].rules,
                          cfg.method, src, fault)
            r0 == Organize(dirs, files, stats[thr[t].st], thr[t].rules,
                           cfg.method, src, "none")
        IN  /\ Pipeline(thr[t].st, thr[t].rules, src, r, r0, "batch")
            /\ thr' = [thr EXCEPT
                    ![t].todo = NextTodo(@, src, r.outcome),
                    ![t].subm = @ \cup {src}]
    /\ UNCHANGED <<cfg, gui, obs>>

\* The files of the directory are done: without recursive the walk ends
\* (break), else it goes on with the subdirectories listed on entry.
WalkBodyEnd(t) ==
    /\ thr[t].pc = "scan"
    /\ thr[t].inBody
    /\ thr[t].todo = {}
    /\ thr' = IF ~cfg.recursive
              THEN WalkOn(t, <<>>)
              ELSE WalkOn(t, thr[t].subs \o thr[t].stack)
    /\ UNCHANGED <<dirs, files, cfg, stats, gui, obs, env, hist>>

\* "if delete_empty: delete_empty_folders(target, stats)".
DeepScanReap(t) ==
    /\ thr[t].pc = "scan_reap"
    /\ IF cfg.delete_empty
       THEN Reap(thr[t].st)
       ELSE UNCHANGED <<dirs, files, stats, env, hist>>
    /\ thr' = [thr EXCEPT ![t].pc = "tail_reap"]
    /\ UNCHANGED <<cfg, gui, obs>>

\* The caller's own delete_empty_folders after deep_scan_and_organize
\* returns: run_headless passes its stats, threaded_run passes self.stats.
TailReap(t) ==
    /\ thr[t].pc = "tail_reap"
    /\ Reap(IF t = 0 THEN thr[t].st ELSE gui.stats)
    /\ thr' = [thr EXCEPT ![t].pc = IF t = 0 THEN "after_run" ELSE "done"]
    /\ UNCHANGED <<cfg, gui, obs>>

(***************************************************************************)
(* run_headless, on thread 0.                                              *)
(***************************************************************************)
\* stats = make_stats(); with --run, deep_scan_and_organize is entered.
RunHeadless ==
    /\ thr[0].pc = "start"
    /\ stats' = [stats EXCEPT ![0] = make_stats]
    /\ hist' = [hist EXCEPT !.calls[0] = 0, !.rmdirs = 0,
                             !.start = [dirs |-> dirs, files |-> files]]
    /\ IF cfg.run
       THEN DeepScanEnter(0, 0)
       ELSE thr' = [thr EXCEPT ![0].pc = "after_run"]
    /\ UNCHANGED <<dirs, files, cfg, gui, obs, env>>

\* With --watch the handler is made on the same stats and the observer
\* started; scheduling a watch on a missing folder ends the program.
WatchStart ==
    /\ thr[0].pc = "after_run"
    /\ IF cfg.watch /\ root \in dirs
       THEN /\ obs' = [ObsInit EXCEPT !.running = TRUE, !.st = 0,
                                      !.rules = build_rules(cfg.custom_rules)]
            /\ thr' = [thr EXCEPT ![0].pc = "watching"]
       ELSE /\ thr' = [thr EXCEPT ![0].pc = "exit"]
            /\ UNCHANGED obs
    /\ UNCHANGED <<dirs, files, cfg, stats, gui, env, hist>>

\* CTRL+C: observer.stop(); observer.join() waits for the event in hand.
KeyboardInterrupt ==
    /\ thr[0].pc = "watching"
    /\ obs.pc = "idle"
    /\ obs' = ObsInit
    /\ thr' = [thr EXCEPT ![0].pc = "exit"]
    /\ UNCHANGED <<dirs, files, cfg, stats, gui, env, hist>>

\* The program is started again, on the same tree with the same config.
RunAgain ==
    /\ thr[0].pc = "exit"
    /\ env.inv < MaxInvocations
    /\ env' = [env EXCEPT !.inv = @ + 1]
    /\ thr' = [thr EXCEPT ![0] = ThreadInit("start")]
    /\ hist' = [hist EXCEPT !.placed = @ \cup hist.movedNow, !.movedNow = {}]
    /\ UNCHANGED <<dirs, files, cfg, stats, gui, obs>>

(***************************************************************************)
(* NewFileHandler.on_created, on the observer's thread, and the            *)
(* environment that creates entries in the watched folder.                 *)
(***************************************************************************)
\* An event is taken; a directory event returns at once, else the handler
\* sleeps and enters the try block.
HandlerBegin ==
    /\ obs.running
    /\ obs.pc = "idle"
    /\ obs.queue # <<>>
    /\ obs' = IF Head(obs.queue).is_directory
              THEN [obs EXCEPT !.queue = Tail(@)]
              ELSE [obs EXCEPT !.queue = Tail(@), !.pc = "organize",
                               !.cur = Head(obs.queue).src]
    /\ UNCHANGED <<dirs, files, cfg, stats, thr, gui, env, hist>>

\* organize_* of the created file; a failure is logged and skips the reaper.
HandlerOrganize ==
    /\ obs.pc = "organize"
    /\ \E fault \in Faults :
        LET r == Organize(dirs, files, stats[obs.st], obs.rules, cfg.method,
                          obs.cur, fault)
            r0 == Organize(dirs, files, stats[obs.st], obs.rules, cfg.method,
                           obs.cur, "none")
        IN  /\ Pipeline(obs.st, obs.rules, obs.cur, r, r0, "watch")
            /\ obs' = [obs EXCEPT !.pc = IF r.outcome = "moved" /\ cfg.delete_empty
                                         THEN "reap" ELSE "idle"]
    /\ UNCHANGED <<cfg, thr, gui>>

\* "if self.delete_empty: delete_empty_folders(self.target, self.stats)".
HandlerReap ==
    /\ obs.pc = "reap"
    /\ Reap(obs.st)
    /\ obs' = [obs EXCEPT !.pc = "idle"]
    /\ UNCHANGED <<cfg, thr, gui>>

\* The directories the observer watches.
Watched == IF cfg.recursive THEN dirs ELSE dirs \cap {root}

EnvCreateFile ==
    /\ obs.running
    /\ env.created < MaxEvents
    /\ \E d \in Watched :
        LET f == NewFile(d, env.created)
        IN  /\ ~EntryExists(dirs, files, d, Name(f))
            /\ files' = files \cup {f}
            /\ obs' = [obs EXCEPT !.queue =
                        Append(@, [is_directory |-> FALSE, src |-> SrcOf(f)])]
    /\ env' = [env EXCEPT !.created = @ + 1]
    /\ UNCHANGED <<dirs, cfg, stats, thr, gui, hist>>

EnvCreateDir ==
    /\ obs.running
    /\ env.created < MaxEvents
    /\ LET d == <<"new" \o ToString(env.created)>>
       IN  /\ root \in dirs
           /\ ~PathExists(dirs, files, d)
           /\ dirs' = dirs \cup {d}
           /\ obs' = [obs EXCEPT !.queue =
                        Append(@, [is_directory |-> TRUE,
                                   src |-> [dir |-> root, stem |-> d[1], ext |-> ""]])]
    /\ env' = [env EXCEPT !.created = @ + 1]
    /\ UNCHANGED <<files, cfg, stats, thr, gui, hist>>

Batch(t) ==
    \/ WalkEnter(t)
    \/ OrganizeNext(t)
    \/ WalkBodyEnd(t)
    \/ DeepScanReap(t)
    \/ TailReap(t)

Watch ==
    \/ HandlerBegin
    \/ HandlerOrganize
    \/ HandlerReap
    \/ EnvCreateFile
    \/ EnvCreateDir

\* One invocation of the headless program.
Next ==
    \/ RunHeadless
    \/ Batch(0)
    \/ WatchStart
    \/ KeyboardInterrupt
    \/ Watch

Spec == Init /\ [][Next]_vars

\* The batch organizer (--run, no --watch) invoked several times in a row.
InitTwice == Init /\ cfg.run /\ ~cfg.watch

NextTwice ==
    \/ RunHeadless
    \/ Batch(0)
    \/ WatchStart
    \/ RunAgain

SpecTwice == InitTwice /\ [][NextTwice]_vars

(***************************************************************************)
(* OrganizerGUI: Run Now, Start Watch and Stop Watch, in any order.        *)
(***************************************************************************)
\* run_now: self.stats = make_stats(), and a daemon thread is started.
RunNow ==
    /\ gui.runs < MaxRuns
    /\ LET t == gui.runs + 1
       IN  /\ gui' = [stats |-> t, runs |-> t]
           /\ stats' = [stats EXCEPT ![t] = make_stats]
           /\ thr' = [thr EXCEPT ![t] = ThreadInit("spawned")]
    /\ UNCHANGED <<dirs, files, cfg, obs, env, hist>>

\* threaded_run begins: deep_scan_and_organize(..., self.stats, self.log).
ThreadedRun(t) ==
    /\ thr[t].pc = "spawned"
    /\ DeepScanEnter(t, gui.stats)
    /\ UNCHANGED <<dirs, files, cfg, stats, gui, obs, env, hist>>

\* start_watch: nothing when an observer runs; else the handler is made on
\* self.stats and the observer started (which fails on a missing folder).
StartWatch ==
    /\ obs' = IF obs.running \/ root \notin dirs
              THEN obs
              ELSE [ObsInit EXCEPT !.running = TRUE, !.st = gui.stats,
                                   !.rules = build_rules(cfg.custom_rules)]
    /\ UNCHANGED <<dirs, files, cfg, stats, thr, gui, env, hist>>

\* stop_watch: observer.stop(); observer.join() waits for the event in hand.
StopWatch ==
    /\ obs.pc = "idle"
    /\ obs' = IF obs.running THEN ObsInit ELSE obs
    /\ UNCHANGED <<dirs, files, cfg, stats, thr, gui, env, hist>>

ScenariosGui ==
    {[tree |-> TreeFlat, custom |-> <<>>],
     [tree |-> TreeMissing, custom |-> <<>>]}

\* The GUI session, with the Recursive box unchecked: the environment makes
\* no operation fail, and no history is kept.
InitGui ==
    /\ stats = [s \in StatsIds |-> make_stats]
    /\ gui = [stats |-> 0, runs |-> 0]
    /\ obs = ObsInit
    /\ env = [inv |-> 1, created |-> 0, faults |-> MaxFaults, trace |-> FALSE]
    /\ hist = HistInit
    /\ \E m \in GuiMethods, del \in BOOLEAN :
          \E sc \in ScenariosGui :
              /\ dirs = sc.tree.dirs
              /\ files = sc.tree.files
              /\ cfg = [method |-> m, recursive |-> FALSE, delete_empty |-> del,
                        custom_rules |-> sc.custom, run |-> FALSE, watch |-> FALSE]
    /\ thr = [t \in Threads |-> ThreadInit("idle")]

NextGui ==
    \/ RunNow
    \/ \E t \in Workers : ThreadedRun(t) \/ Batch(t)
    \/ StartWatch
    \/ StopWatch
    \/ HandlerBegin
    \/ HandlerOrganize
    \/ HandlerReap
    \/ EnvCreateFile

SpecGui == InitGui /\ [][NextGui]_vars

(***************************************************************************)
(* Properties.                                                             *)
(***************************************************************************)
\* The file that the last call of the pipeline was given, as it was before.
LastSrcFile == CHOOSE f \in hist.last.preFiles : f.id = hist.last.id

\* Before the last call an entry (file or directory) called name lay in the
\* destination directory.
LastNameTaken(name) ==
    \/ \E f \in hist.last.preFiles : f.dir = hist.last.dest /\ f.stem \o f.ext = name
    \/ Append(hist.last.dest, name) \in hist.last.preDirs

LastSuffixed(n) ==
    LastSrcFile.stem \o " (" \o ToString(n) \o ")" \o LastSrcFile.ext

\* C1: a successful safe_move leaves every other file as it was (none is
\* overwritten, removed or renamed) and stores the moved file in the
\* destination directory under its own name when that name was free there,
\* else as "<stem> (N)<ext>" with N the smallest positive integer whose name
\* no entry of the destination had.
C1_CollisionSafe ==
    hist.last.outcome = "moved" =>
        /\ \A f \in hist.last.preFiles :
                f.id # hist.last.id => f \in hist.last.postFiles
        /\ Cardinality(hist.last.postFiles) = Cardinality(hist.last.preFiles)
        /\ \E g \in hist.last.postFiles :
            /\ g.id = hist.last.id
            /\ g.dir = hist.last.dest
            /\ g.ext = LastSrcFile.ext
            /\ IF ~LastNameTaken(LastSrcFile.stem \o LastSrcFile.ext)
               THEN g.stem = LastSrcFile.stem
               ELSE \E n \in 1 .. (Cardinality(hist.last.preFiles)
                                   + Cardinality(hist.last.preDirs) + 1) :
                        /\ g.stem \o g.ext = LastSuffixed(n)
                        /\ ~LastNameTaken(LastSuffixed(n))
                        /\ \A k \in 1 .. (n - 1) : LastNameTaken(LastSuffixed(k))

\* C1 witness: a.jpg was moved into a directory that held a.jpg and
\* "a (1).jpg", and all three files are there now.
C1_Witness ==
    /\ hist.last.outcome = "moved"
    /\ hist.last.src.dir # hist.last.dest
    /\ \E g \in files : g.id = hist.last.id /\ g.dir = hist.last.dest
                        /\ g.stem = "a (2)" /\ g.ext = ".jpg"
    /\ \E g \in files : g.id # hist.last.id /\ g.dir = hist.last.dest
                        /\ g.stem = "a" /\ g.ext = ".jpg"
    /\ \E g \in files : g.id # hist.last.id /\ g.dir = hist.last.dest
                        /\ g.stem = "a (1)" /\ g.ext = ".jpg"

\* The batch run of thread 0 is over (deep_scan_and_organize has returned).
BatchOver == cfg.run /\ thr[0].pc \in {"tail_reap", "after_run", "watching", "exit"}

\* C3: when the batch scan of an existing target is over, every file that
\* was listed has been handed to the move pipeline, whatever failed on the
\* way: every file that lay at the top level at the start and, with
\* recursive, every file of the tree.  With the target missing nothing is
\* moved and no counter changes.
C3_OneBadFileNeverStops ==
    BatchOver =>
        IF root \in hist.start.dirs
        THEN /\ thr[0].seen \subseteq thr[0].subm
             /\ \A f \in hist.start.files :
                    (cfg.recursive \/ f.dir = root) => SrcOf(f) \in thr[0].subm
        ELSE /\ stats[0] = make_stats
             /\ thr[0].subm = {}
             /\ files = hist.start.files
             /\ dirs = hist.start.dirs

\* C3 witness: the scan is over, a file handed to the pipeline was not
\* moved, and the file handled last (after it) was moved.
C3_Witness ==
    /\ cfg.run
    /\ thr[0].pc = "tail_reap"
    /\ hist.last.outcome = "moved"
    /\ stats[0].files_moved < Cardinality(thr[0].subm)
    /\ env.faults > 0

\* C4: a safe_move that fails in the creation of the destination directory
\* or in the move adds exactly one to errors, raises, and leaves files_moved
\* as it was.
C4_ErrorAccounting ==
    hist.last.outcome \in {"mkdir_failed", "move_failed"} =>
        /\ hist.last.after.errors = hist.last.before.errors + 1
        /\ hist.last.raised
        /\ hist.last.after.files_moved = hist.last.before.files_moved

\* C5: on every Stats record files_moved <= scanned and errors + files_moved
\* <= scanned, and scanned counts every call of safe_move (every file
\* considered for a move attempt), successful or not.
C5_StatsInvariant ==
    \A s \in StatsIds :
        /\ stats[s].files_moved <= stats[s].scanned
        /\ stats[s].errors + stats[s].files_moved <= stats[s].scanned
        /\ stats[s].scanned = hist.calls[s]

\* C2: without recursive, a later run of the batch organizer on the same
\* tree moves no file that an earlier run moved.
C2_Idempotent ==
    ~cfg.recursive => hist.placed \cap hist.movedNow = {}

\* The entries of a custom mapping that list ext (after normalisation).
CustomHits(custom, ext) ==
    {i \in 1 .. Len(custom) :
        \E j \in 1 .. Len(custom[i][2]) : normalize_ext(custom[i][2][j]) = ext}

\* The default categories that no entry of the custom mapping names and
\* that list ext.
DefaultHits(custom, ext) ==
    {i \in 1 .. Len(DEFAULT_RULES) :
        /\ \A k \in 1 .. Len(custom) : custom[k][1] # DEFAULT_RULES[i][1]
        /\ \E j \in 1 .. Len(DEFAULT_RULES[i][2]) : DEFAULT_RULES[i][2][j] = ext}

Least(S) == CHOOSE i \in S : \A j \in S : i <= j

\* The normalised extensions the check classifies: those of the default
\* table and of the custom tables, the empty one and one in no table.
ExtUniverse ==
    UNION {SeqToSet(DEFAULT_RULES[i][2]) : i \in 1 .. Len(DEFAULT_RULES)}
    \cup {"xyz", "", "unknown"}

\* What C6 says of the table R built from the mapping custom.
ClassifiedAsClaimed(custom, R) ==
    /\ \A i, j \in 1 .. Len(R) : i # j => R[i][1] # R[j][1]
    /\ \A i \in 1 .. Len(custom) :
            /\ R[i][1] = custom[i][1]
            /\ SeqToSet(R[i][2]) =
                   {normalize_ext(custom[i][2][j]) : j \in 1 .. Len(custom[i][2])}
    /\ \A ext \in ExtUniverse :
            resolve_folder_for_ext(ext, R) =
                IF CustomHits(custom, ext) # {}
                THEN custom[Least(CustomHits(custom, ext))][1]
                ELSE IF DefaultHits(custom, ext) # {}
                THEN DEFAULT_RULES[Least(DefaultHits(custom, ext))][1]
                ELSE "Others"

\* The custom mappings whose built table is as C6 says.
MappingsAsClaimed ==
    {custom \in CustomTables : ClassifiedAsClaimed(custom, build_rules(custom))}

\* The rule tables in use: the batch scan's and the watch handler's.
TablesInUse ==
    {thr[t].rules : t \in {u \in Threads : thr[u].pc \in {"scan", "scan_reap"}}}
    \cup (IF obs.running THEN {obs.rules} ELSE {})

\* C6: the table a batch scan or a watch handler works with is
\* build_rules(custom_rules), and in it no two entries share a category; a
\* custom entry keeps its own (normalised) extension list, also under a
\* default category's name; and an extension resolves to the first custom
\* entry that lists it, else to the first default category not named by a
\* custom entry that lists it, else to "Others".
C6_Classification ==
    /\ \A R \in TablesInUse : R = build_rules(cfg.custom_rules)
    /\ cfg.custom_rules \in MappingsAsClaimed

\* C6 witness: the custom rules name the default category Images, and a.jpg
\* was moved to Pics, the custom entry that lists jpg (as ".JPG").
C6_Witness ==
    /\ \E i \in 1 .. Len(cfg.custom_rules) : cfg.custom_rules[i][1] = "Images"
    /\ thr[0].pc = "scan"
    /\ hist.last.outcome = "moved"
    /\ hist.last.src.ext = ".jpg"
    /\ hist.last.dest = <<"Pics">>

\* Path(target) / a / b / c.
Under(a, b, c) == Join(Join(Join(root, a), b), c)

\* C7: a moved file lies in root/C/Y/M for "type_date", in root/Y/M/C for
\* "date_type" and in root/C for every other method, with C the category of
\* its normalised extension and Y, M the year and month of its modification
\* time; a .jpg of March 2023 lies under Images/2023/Mar, 2023/Mar/Images
\* and Images with the default rules.  It keeps its name, or has the
\* " (N)" suffix when the name was taken.
C7_DestinationPath ==
    hist.last.outcome = "moved" =>
        LET f == LastSrcFile
            C == resolve_folder_for_ext(normalize_ext(f.ext), hist.last.rules)
            Y == ToString(f.ts \div 12)
            M == MonthAbbr[(f.ts % 12) + 1]
            g == CHOOSE h \in hist.last.postFiles : h.id = hist.last.id
        IN  /\ g.dir = CASE cfg.method = "type_date" -> Under(C, Y, M)
                         [] cfg.method = "date_type" -> Under(Y, M, C)
                         [] OTHER -> Join(root, C)
            /\ (f.ext = ".jpg" /\ f.ts = TsMar2023 /\ cfg.custom_rules = <<>>) =>
                    g.dir = CASE cfg.method = "type_date" -> <<"Images", "2023", "Mar">>
                              [] cfg.method = "date_type" -> <<"2023", "Mar", "Images">>
                              [] OTHER -> <<"Images">>
            /\ g.ext = f.ext
            /\ \/ g.stem = f.stem
               \/ /\ LastNameTaken(f.stem \o f.ext)
                  /\ \E n \in 1 .. (Cardinality(hist.last.preFiles)
                                    + Cardinality(hist.last.preDirs) + 1) :
                        g.stem = f.stem \o " (" \o ToString(n) \o ")"

\* C7 witness: with "date_type" a.jpg of March 2023 was moved from the top
\* level to 2023/Mar/Images.
C7_Witness ==
    /\ cfg.method = "date_type"
    /\ hist.last.outcome = "moved"
    /\ hist.last.src = [dir |-> root, stem |-> "a", ext |-> ".jpg"]
    /\ \E g \in files : g.id = hist.last.id /\ g.dir = <<"2023", "Mar", "Images">>
                        /\ g.stem = "a" /\ g.ext = ".jpg"

\* A file lies in d or below it.
HoldsFile(fs, d) == \E f \in fs : IsPrefix(d, f.dir)

\* C8: a pass of the reaper adds to folders_deleted the number of
\* directories it removed, keeps the root, and removes no directory that
\* holds a file or lies above one; when no removal failed, every directory
\* left under the root holds a file in or below it, so that of a tree of
\* nested directories without files only the root is left.
C8_Reaper ==
    hist.reap.ran =>
        LET removed == hist.reap.dirsBefore \ hist.reap.dirsAfter
        IN  /\ hist.reap.after.folders_deleted =
                   hist.reap.before.folders_deleted + Cardinality(removed)
            /\ hist.reap.dirsAfter \subseteq hist.reap.dirsBefore
            /\ root \in hist.reap.dirsBefore => root \in hist.reap.dirsAfter
            /\ \A d \in hist.reap.dirsBefore :
                    HoldsFile(hist.reap.filesThen, d) => d \in hist.reap.dirsAfter
            /\ hist.reap.fail = {} =>
                    \A d \in hist.reap.dirsAfter \ {root} :
                        HoldsFile(hist.reap.filesThen, d)
            /\ (hist.reap.fail = {} /\ hist.reap.filesThen = {}) =>
                    hist.reap.dirsAfter \subseteq {root}

\* C8 witness: a pass on the tree of x/y/z and w, without files, removed
\* the four directories and counted four.
C8_Witness ==
    /\ hist.reap.ran
    /\ hist.reap.filesThen = {}
    /\ hist.reap.dirsBefore = {root, <<"x">>, <<"x", "y">>, <<"x", "y", "z">>, <<"w">>}
    /\ dirs = {root}
    /\ hist.reap.after.folders_deleted = hist.reap.before.folders_deleted + 4

\* C9: a batch run with delete_empty false removes no directory and leaves
\* folders_deleted at 0.
C9_NoReapWithoutFlag ==
    (cfg.run /\ ~cfg.delete_empty /\ thr[0].pc \in {"after_run", "watching", "exit"}) =>
        /\ stats[0].folders_deleted = 0
        /\ hist.rmdirs = 0

\* The pipelines that are at work: a batch thread inside
\* deep_scan_and_organize or in its caller's reaper, the handler inside the
\* try block of on_created; each with the Stats record it writes.
Writers ==
    {[who |-> t, sid |-> IF thr[t].pc = "tail_reap" THEN gui.stats ELSE thr[t].st] :
        t \in {u \in Workers : thr[u].pc \in {"scan", "scan_reap", "tail_reap"}}}
    \cup (IF obs.pc \in {"organize", "reap"}
          THEN {[who |-> "watch", sid |-> obs.st]} ELSE {})

\* C10: at most one pipeline is at work at a time, and no two write the
\* same Stats record.
C10_SingleWriter ==
    /\ Cardinality(Writers) <= 1
    /\ \A a, b \in Writers : a # b => a.sid # b.sid

Counters == {"scanned", "folders_created", "files_moved", "folders_deleted", "errors"}

\* A step that starts a run on the Stats record s: a batch organize of the
\* headless program, or a watch session.
BatchStarts(s) == s = 0 /\ cfg.run /\ thr[0].pc = "start" /\ thr'[0].pc # "start"

WatchSessionStarts(s) == ~obs.running /\ obs'.running /\ obs'.st = s

\* C11: every counter is a natural number; a step that starts a run (a
\* batch organize or a watch session) on a Stats record leaves all its
\* counters at zero; and no other step makes a counter smaller.
C11_StatsLifecycle ==
    [][\A s \in StatsIds :
          /\ \A k \in Counters : stats'[s][k] \in Nat
          /\ (BatchStarts(s) \/ WatchSessionStarts(s)) => stats'[s] = make_stats
          /\ ~(BatchStarts(s) \/ WatchSessionStarts(s)) =>
                \A k \in Counters : stats'[s][k] >= stats[s][k]]_vars

====
